---- MODULE Spec2Model ----
(***************************************************************************)
(* Model of src/elliptic/curves/secp256_k1.rs: the Secp256k1Scalar and     *)
(* Secp256k1Point wrappers, their arithmetic and their serde codecs.       *)
(*                                                                         *)
(* The 256-bit curve cannot be enumerated, so the model runs the same code *)
(* over a curve of the same shape, y^2 = x^3 + 7 over F_43, whose group    *)
(* has prime order 31 (order < field prime, as for secp256k1).  A byte     *)
(* holds 4 bits and a key or coordinate is 2 bytes wide, so values below   *)
(* 16 have a leading zero byte, values up to 255 fit the canonical width,  *)
(* and values from 256 on are oversized.                                   *)
(***************************************************************************)
EXTENDS Integers, Sequences, FiniteSets, TLC

VARIABLES sa, sb, pa, pb, call

vars == <<sa, sb, pa, pb, call>>

----------------------------------------------------------------------------
(* Curve parameters and sizes (secp256k1::constants), scaled.              *)

ByteBase == 16

SECRET_KEY_SIZE == 2

UNCOMPRESSED_PUBLIC_KEY_SIZE == 5

FIELD_PRIME == 43

CURVE_ORDER == <<1, 15>>

GENERATOR_X == <<1, 5>>

GENERATOR_Y == <<1, 2>>

(* Bounds of the inputs the model enumerates.                              *)

MaxN == 33

MinN == 2

CoorSlack == 1

MaxFields == 3

----------------------------------------------------------------------------
(* Outcomes of a call: a returned value, or the panic that ended it.       *)

Ok(v) == [ok |-> TRUE, val |-> v, fault |-> "none"]

Fault(site) == [ok |-> FALSE, val |-> <<>>, fault |-> site]

----------------------------------------------------------------------------
(* Integer backend (BigInt with the Converter and Modulo traits).          *)

Abs(n) == IF n < 0 THEN 0 - n ELSE n

RECURSIVE BigInt_magnitude_bytes(_)
BigInt_magnitude_bytes(n) ==
    IF n < ByteBase THEN <<n>>
    ELSE Append(BigInt_magnitude_bytes(n \div ByteBase), n % ByteBase)

\* BigInt::to_vec: big-endian bytes of the magnitude, no leading zero byte
\* (the sign is not exported; zero is exported as one zero byte).
BigInt_to_vec(n) == BigInt_magnitude_bytes(Abs(n))

\* BigInt::from(&[u8]): the bytes read as a big-endian unsigned integer.
RECURSIVE BigInt_from(_)
BigInt_from(v) ==
    IF v = <<>> THEN 0
    ELSE BigInt_from(SubSeq(v, 1, Len(v) - 1)) * ByteBase + v[Len(v)]

BigInt_mod_add(a, b, m) == ((a % m) + (b % m)) % m

BigInt_mod_mul(a, b, m) == ((a % m) * (b % m)) % m

BigInt_mod_sub(a, b, m) == ((a % m) - (b % m) + m) % m

HexChars ==
    <<"0", "1", "2", "3", "4", "5", "6", "7",
      "8", "9", "a", "b", "c", "d", "e", "f">>

RECURSIVE BigInt_hex_digits(_)
BigInt_hex_digits(n) ==
    IF n < 16 THEN <<HexChars[n + 1]>>
    ELSE Append(BigInt_hex_digits(n \div 16), HexChars[(n % 16) + 1])

\* BigInt::to_hex: lowercase, no prefix, no leading zero digit; a string
\* is modelled as the sequence of its characters.
BigInt_to_hex(n) ==
    IF n < 0 THEN <<"-">> \o BigInt_hex_digits(0 - n) ELSE BigInt_hex_digits(n)

HexDigitValue(c) ==
    CASE c = "0" -> 0 [] c = "1" -> 1 [] c = "2" -> 2 [] c = "3" -> 3
      [] c = "4" -> 4 [] c = "5" -> 5 [] c = "6" -> 6 [] c = "7" -> 7
      [] c = "8" -> 8 [] c = "9" -> 9
      [] c \in {"a", "A"} -> 10 [] c \in {"b", "B"} -> 11
      [] c \in {"c", "C"} -> 12 [] c \in {"d", "D"} -> 13
      [] c \in {"e", "E"} -> 14 [] c \in {"f", "F"} -> 15
      [] OTHER -> 0 - 1

RECURSIVE HexValue(_)
HexValue(s) ==
    IF s = <<>> THEN 0
    ELSE HexValue(SubSeq(s, 1, Len(s) - 1)) * 16 + HexDigitValue(s[Len(s)])

\* BigInt::from_str_radix(s, 16): Err on an empty string or a character
\* that is not a hexadecimal digit.
BigInt_from_str_radix(s) ==
    IF s # <<>> /\ \A i \in 1..Len(s) : HexDigitValue(s[i]) >= 0
    THEN Ok(HexValue(s))
    ELSE Fault("parse")

----------------------------------------------------------------------------
(* Curve group backend: SecretKey.                                         *)

\* SecretKey::from_slice: Ok only for SECRET_KEY_SIZE bytes whose value is
\* neither zero nor at or above the curve order.
SK_from_slice(v) ==
    IF Len(v) = SECRET_KEY_SIZE
       /\ BigInt_from(v) > 0
       /\ BigInt_from(v) < BigInt_from(CURVE_ORDER)
    THEN Ok(v)
    ELSE Fault("InvalidSecretKey")

----------------------------------------------------------------------------
(* Curve group backend: PublicKey.  A key is the affine point <<x, y>>.    *)

OnCurve(x, y) == (y * y) % FIELD_PRIME = (x * x * x + 7) % FIELD_PRIME

CurvePoints ==
    {pt \in (0..(FIELD_PRIME - 1)) \X (0..(FIELD_PRIME - 1)) :
        OnCurve(pt[1], pt[2])}

COORDINATE_SIZE == (UNCOMPRESSED_PUBLIC_KEY_SIZE - 1) \div 2

RECURSIVE Pow(_, _)
Pow(b, e) == IF e = 0 THEN 1 ELSE b * Pow(b, e - 1)

\* a field element in the backend's fixed-width big-endian encoding
FieldBytes(n) ==
    [i \in 1..COORDINATE_SIZE |->
        (n \div Pow(ByteBase, COORDINATE_SIZE - i)) % ByteBase]

\* PublicKey::from_slice on an uncompressed encoding: Ok only for the
\* canonical length, the 0x04 tag and coordinates of a point of the curve.
PK_from_slice(v) ==
    IF Len(v) # UNCOMPRESSED_PUBLIC_KEY_SIZE \/ v[1] # 4
    THEN Fault("InvalidPublicKey")
    ELSE LET x == BigInt_from(SubSeq(v, 2, 1 + COORDINATE_SIZE))
             y == BigInt_from(SubSeq(v, 2 + COORDINATE_SIZE, Len(v)))
         IN  IF x < FIELD_PRIME /\ y < FIELD_PRIME /\ OnCurve(x, y)
             THEN Ok(<<x, y>>)
             ELSE Fault("InvalidPublicKey")

PK_serialize_uncompressed(ge) == <<4>> \o FieldBytes(ge[1]) \o FieldBytes(ge[2])

Infinity == <<>>

FieldInv(a) == CHOOSE i \in 1..(FIELD_PRIME - 1) : (a * i) % FIELD_PRIME = 1

GroupAdd(p1, p2) ==
    IF p1 = Infinity THEN p2
    ELSE IF p2 = Infinity THEN p1
    ELSE IF p1[1] = p2[1] /\ (p1[2] + p2[2]) % FIELD_PRIME = 0 THEN Infinity
    ELSE LET lam == IF p1 = p2
                    THEN (3 * p1[1] * p1[1]
                            * FieldInv((2 * p1[2]) % FIELD_PRIME)) % FIELD_PRIME
                    ELSE ((p2[2] - p1[2])
                            * FieldInv((p2[1] - p1[1]) % FIELD_PRIME))
                         % FIELD_PRIME
             x3 == (lam * lam - p1[1] - p2[1]) % FIELD_PRIME
             y3 == (lam * (p1[1] - x3) - p1[2]) % FIELD_PRIME
         IN  <<x3, y3>>

\* k * pt by doubling and adding
RECURSIVE GroupMul(_, _)
GroupMul(k, pt) ==
    IF k = 0 THEN Infinity
    ELSE LET half == GroupMul(k \div 2, pt)
             twice == GroupAdd(half, half)
         IN  IF k % 2 = 1 THEN GroupAdd(twice, pt) ELSE twice

\* PublicKey::combine: Err when the sum is the point at infinity
PK_combine(ge, other) ==
    LET sum == GroupAdd(ge, other)
    IN  IF sum = Infinity THEN Fault("InvalidPublicKey") ELSE Ok(sum)

\* the multiples 1 * pt .. (order - 1) * pt of every point of the curve,
\* computed once; the point <<x, y>> is at index x * FIELD_PRIME + y + 1
GroupMulTable ==
    [i \in 1..(FIELD_PRIME * FIELD_PRIME) |->
        LET pt == <<(i - 1) \div FIELD_PRIME, (i - 1) % FIELD_PRIME>>
        IN  IF OnCurve(pt[1], pt[2])
            THEN [k \in 1..(BigInt_from(CURVE_ORDER) - 1) |-> GroupMul(k, pt)]
                 \o <<>>
            ELSE <<>>] \o <<>>

\* PublicKey::mul_assign by a valid secret key
PK_mul_assign(ge, fe) ==
    LET product == GroupMulTable[ge[1] * FIELD_PRIME + ge[2] + 1][BigInt_from(fe)]
    IN  IF product = Infinity THEN Fault("InvalidTweak") ELSE Ok(product)

----------------------------------------------------------------------------
(* Secp256k1Scalar { purpose, fe }.                                        *)

NoScalar == [purpose |-> "none", fe |-> <<>>]

\* The byte arrays thread_rng().fill is let to produce: a valid key, all
\* zero, and the curve order.
RandBytes == {<<0, 5>>, <<0, 0>>, <<1, 15>>}

\* fn new_random(): SK::from_slice(random 32 bytes).unwrap()
new_random(arr) ==
    LET r == SK_from_slice(arr)
    IN  IF r.ok THEN Ok([purpose |-> "random", fe |-> r.val])
        ELSE Fault("new_random")

get_element(s) == s.fe

set_element(s, element) == [s EXCEPT !.fe = element]

\* to_big_int reading the raw bytes in little-endian order
to_big_int_le(s) ==
    BigInt_from([i \in 1..Len(s.fe) |-> s.fe[Len(s.fe) + 1 - i]])

\* fn to_big_int(&self): the raw bytes as a big-endian integer
to_big_int(s) == BigInt_from(SubSeq(s.fe, 1, Len(s.fe)))

\* fn q(&self)
q == BigInt_from(CURVE_ORDER)

\* the left padding of from (lines 117-121)
from_pad(v) ==
    IF Len(v) < SECRET_KEY_SIZE
    THEN [i \in 1..(SECRET_KEY_SIZE - Len(v)) |-> 0] \o v
    ELSE v

\* fn from(n): arr is what the new_random() behind temp_fe draws
from(n, arr) ==
    LET temp_fe == new_random(arr)
    IN  IF ~temp_fe.ok THEN temp_fe
        ELSE LET curve_order == q
                 n_reduced == BigInt_mod_add(n, 0, curve_order)
                 v == from_pad(BigInt_to_vec(n_reduced))
                 r == SK_from_slice(v)
             IN  IF r.ok THEN Ok([purpose |-> "from_big_int", fe |-> r.val])
                 ELSE Fault("from")

\* add, mul and sub: a fresh random Scalar (drawing arr1) receives other,
\* the modular operation is applied to the two integers, and from
\* (drawing arr2) builds the result.

\* fn add(&self, other)
add(self, other, arr1, arr2) ==
    LET fresh == new_random(arr1)
    IN  IF ~fresh.ok THEN fresh
        ELSE LET other_scalar == set_element(fresh.val, other)
                 res == from(BigInt_mod_add(to_big_int(self),
                                         to_big_int(other_scalar), q), arr2)
             IN  IF ~res.ok THEN res
                 ELSE Ok([purpose |-> "add", fe |-> get_element(res.val)])

\* fn mul(&self, other)
mul(self, other, arr1, arr2) ==
    LET fresh == new_random(arr1)
    IN  IF ~fresh.ok THEN fresh
        ELSE LET other_scalar == set_element(fresh.val, other)
                 res == from(BigInt_mod_mul(to_big_int(self),
                                         to_big_int(other_scalar), q), arr2)
             IN  IF ~res.ok THEN res
                 ELSE Ok([purpose |-> "mul", fe |-> get_element(res.val)])

\* fn sub(&self, other): the purpose written is "mul"
sub(self, other, arr1, arr2) ==
    LET fresh == new_random(arr1)
    IN  IF ~fresh.ok THEN fresh
        ELSE LET other_scalar == set_element(fresh.val, other)
                 res == from(BigInt_mod_sub(to_big_int(self),
                                         to_big_int(other_scalar), q), arr2)
             IN  IF ~res.ok THEN res
                 ELSE Ok([purpose |-> "mul", fe |-> get_element(res.val)])

\* #[derive(PartialEq)] on Secp256k1Scalar: every field is compared
Secp256k1Scalar_eq(a, b) == a.purpose = b.purpose /\ a.fe = b.fe

\* Secp256k1ScalarVisitor::visit_str
visit_str(s, arr) ==
    LET v == BigInt_from_str_radix(s)
    IN  IF ~v.ok THEN Fault("serde") ELSE from(v.val, arr)

\* impl Serialize for Secp256k1Scalar
Secp256k1Scalar_serialize(s) == BigInt_to_hex(to_big_int(s))

----------------------------------------------------------------------------
(* Secp256k1Point { purpose, ge }.                                         *)

\* fn generator()
generator ==
    LET v == <<4>> \o GENERATOR_X \o GENERATOR_Y
        r == PK_from_slice(v)
    IN  IF r.ok THEN Ok([purpose |-> "base_fe", ge |-> r.val])
        ELSE Fault("generator")

\* fn x_coor(&self): Rust's serialized_pk[1 .. len / 2 + 1]
x_coor(pt) ==
    LET serialized_pk == PK_serialize_uncompressed(pt.ge)
    IN  BigInt_from(SubSeq(serialized_pk, 2, Len(serialized_pk) \div 2 + 1))

\* fn y_coor(&self): Rust's serialized_pk[(len - 1) / 2 + 1 .. len]
y_coor(pt) ==
    LET serialized_pk == PK_serialize_uncompressed(pt.ge)
    IN  BigInt_from(SubSeq(serialized_pk,
                           (Len(serialized_pk) - 1) \div 2 + 2,
                           Len(serialized_pk)))

\* pk_to_key_slice writing x and then y
pk_to_key_slice_xy(pt) ==
    <<4>> \o BigInt_to_vec(x_coor(pt)) \o BigInt_to_vec(y_coor(pt))

\* fn pk_to_key_slice(&self)
pk_to_key_slice(pt) ==
    <<4>> \o BigInt_to_vec(x_coor(pt)) \o BigInt_to_vec(x_coor(pt))

\* fn scalar_mul(mut self, fe): the receiver with its element multiplied
scalar_mul(self, fe) ==
    LET r == PK_mul_assign(self.ge, fe)
    IN  IF r.ok THEN Ok([self EXCEPT !.ge = r.val]) ELSE Fault("scalar_mul")

\* fn add_point(&self, other)
add_point(self, other) ==
    LET r == PK_combine(self.ge, other)
    IN  IF r.ok THEN Ok([purpose |-> "combine", ge |-> r.val])
        ELSE Fault("add_point")

\* fn random_point(): arr is what new_random() draws; the 32 bytes drawn
\* afterwards (line 68) are not used
random_point(arr) ==
    LET random_scalar == new_random(arr)
    IN  IF ~random_scalar.ok THEN random_scalar
        ELSE LET base_point == generator
                 pk == scalar_mul(base_point.val, get_element(random_scalar.val))
             IN  IF ~pk.ok THEN pk
                 ELSE Ok([purpose |-> "random_point", ge |-> pk.val.ge])

\* the padding of from_coor with the zero bytes appended
coor_pad_right(v) ==
    IF Len(v) < COORDINATE_SIZE
    THEN v \o [i \in 1..(COORDINATE_SIZE - Len(v)) |-> 0]
    ELSE v

\* the padding of from_coor cutting a longer encoding down to the width
coor_pad_cut(v) ==
    IF Len(v) < COORDINATE_SIZE
    THEN [i \in 1..(COORDINATE_SIZE - Len(v)) |-> 0] \o v
    ELSE SubSeq(v, Len(v) - COORDINATE_SIZE + 1, Len(v))

\* the left padding of from_coor (lines 272-284): a shorter encoding gets
\* leading zero bytes, any other encoding is left as it is
coor_pad(v) ==
    IF Len(v) < COORDINATE_SIZE
    THEN [i \in 1..(COORDINATE_SIZE - Len(v)) |-> 0] \o v
    ELSE v

\* fn from_coor(x, y)
from_coor(x, y) ==
    LET vec_x == coor_pad(BigInt_to_vec(x))
        vec_y == coor_pad(BigInt_to_vec(y))
    IN  IF x # BigInt_from(vec_x) THEN Fault("assert_eq_x")
        ELSE IF y # BigInt_from(vec_y) THEN Fault("assert_eq_y")
        ELSE LET v == <<4>> \o vec_x \o vec_y
                 r == PK_from_slice(v)
             IN  IF r.ok THEN Ok([purpose |-> "base_fe", ge |-> r.val])
                 ELSE Fault("from_coor")

\* #[derive(PartialEq)] on Secp256k1Point: every field is compared
Secp256k1Point_eq(a, b) == a.purpose = b.purpose /\ a.ge = b.ge

\* impl Serialize for Secp256k1Point: the fields x and y, in this order
Secp256k1Point_serialize(pt) ==
    << <<"x", BigInt_to_hex(x_coor(pt))>>, <<"y", BigInt_to_hex(y_coor(pt))>> >>

\* BigInt::from_hex: from_str_radix(s, 16), unwrapped
BigInt_from_hex(s) ==
    LET r == BigInt_from_str_radix(s)
    IN  IF r.ok THEN r ELSE Fault("from_hex")

\* the loop of visit_map passing over a field that is neither x nor y
RECURSIVE visit_map_fields_skip(_, _, _)
visit_map_fields_skip(entries, x, y) ==
    IF entries = <<>> THEN Ok(<<x, y>>)
    ELSE LET key == Head(entries)[1]
             v == Head(entries)[2]
         IN  IF key = "x" THEN visit_map_fields_skip(Tail(entries), v, y)
             ELSE IF key = "y" THEN visit_map_fields_skip(Tail(entries), x, v)
             ELSE visit_map_fields_skip(Tail(entries), x, y)

\* the loop of visit_map (lines 331-341) over the entries of the record
RECURSIVE visit_map_fields(_, _, _)
visit_map_fields(entries, x, y) ==
    IF entries = <<>> THEN Ok(<<x, y>>)
    ELSE LET key == Head(entries)[1]
             v == Head(entries)[2]
         IN  IF key = "x" THEN visit_map_fields(Tail(entries), v, y)
             ELSE IF key = "y" THEN visit_map_fields(Tail(entries), x, v)
             ELSE Fault("unknown_field")

\* Secp256k1PointVisitor::visit_map
visit_map(entries) ==
    LET fields == visit_map_fields(entries, <<>>, <<>>)
    IN  IF ~fields.ok THEN fields
        ELSE LET bx == BigInt_from_hex(fields.val[1])
                 by == BigInt_from_hex(fields.val[2])
             IN  IF ~bx.ok THEN bx
                 ELSE IF ~by.ok THEN by
                 ELSE from_coor(bx.val, by.val)

----------------------------------------------------------------------------
(* The session: two Scalar and two Point variables of a caller, and the    *)
(* last call with its arguments and outcome.  A panic unwinds the caller,  *)
(* which drops its values.                                                 *)

NoPoint == [purpose |-> "none", ge |-> <<>>]

NoCall == [op |-> "none", args |-> <<>>, out |-> Fault("none")]

Init ==
    /\ sa = NoScalar
    /\ sb = NoScalar
    /\ pa = NoPoint
    /\ pb = NoPoint
    /\ call = NoCall

Slots == {"a", "b"}

\* a call that returns a Scalar into the variable dst, or panics
ScalarCall(op, args, out, dst) ==
    /\ call' = [op |-> op, args |-> args, out |-> out]
    /\ IF out.ok
       THEN /\ sa' = IF dst = "a" THEN out.val ELSE sa
            /\ sb' = IF dst = "b" THEN out.val ELSE sb
            /\ UNCHANGED <<pa, pb>>
       ELSE /\ sa' = NoScalar
            /\ sb' = NoScalar
            /\ pa' = NoPoint
            /\ pb' = NoPoint

\* the integers handed to from: a range around zero and the curve order,
\* and two further multiples of the order
IntInputs == ((0 - MinN)..MaxN) \cup {0 - q, 2 * q}

\* the strings handed to the Scalar deserializer: the serialized form of
\* each integer, some with a leading zero digit or in upper case, and
\* strings that are not hexadecimal
HexInputs ==
    {BigInt_to_hex(n) : n \in 0..MaxN}
    \cup {BigInt_to_hex(2 * q), <<"0", "0">>, <<"0", "5">>, <<"0", "1", "f">>,
          <<"1", "E">>, <<"1", "F">>, <<>>, <<"g">>, <<"1", "g">>}

NewRandom ==
    \E arr \in RandBytes, dst \in Slots :
        ScalarCall("new_random", <<>>, new_random(arr), dst)

From ==
    \E n \in IntInputs, arr \in RandBytes :
        ScalarCall("from", <<n>>, from(n, arr), "b")

SetElement ==
    /\ sa # NoScalar
    /\ sb # NoScalar
    /\ sa' = set_element(sa, get_element(sb))
    /\ call' = [op |-> "set_element", args |-> <<>>,
                out |-> Ok(set_element(sa, get_element(sb)))]
    /\ UNCHANGED <<sb, pa, pb>>

Add ==
    /\ sa # NoScalar
    /\ sb # NoScalar
    /\ \E arr1 \in RandBytes, arr2 \in RandBytes :
           ScalarCall("add", <<sa, get_element(sb)>>,
                      add(sa, get_element(sb), arr1, arr2), "b")

Mul ==
    /\ sa # NoScalar
    /\ sb # NoScalar
    /\ \E arr1 \in RandBytes, arr2 \in RandBytes :
           ScalarCall("mul", <<sa, get_element(sb)>>,
                      mul(sa, get_element(sb), arr1, arr2), "b")

Sub ==
    /\ sa # NoScalar
    /\ sb # NoScalar
    /\ \E arr1 \in RandBytes, arr2 \in RandBytes :
           ScalarCall("sub", <<sa, get_element(sb)>>,
                      sub(sa, get_element(sb), arr1, arr2), "b")

DeserializeScalar ==
    \E s \in HexInputs, arr \in RandBytes :
        ScalarCall("deserialize_scalar", <<s>>, visit_str(s, arr), "a")

EqScalar ==
    /\ sa # NoScalar
    /\ sb # NoScalar
    /\ call' = [op |-> "eq", args |-> <<sa, sb>>,
                out |-> Ok(Secp256k1Scalar_eq(sa, sb))]
    /\ UNCHANGED <<sa, sb, pa, pb>>

NextScalar ==
    \/ NewRandom
    \/ From
    \/ SetElement
    \/ Add
    \/ Mul
    \/ Sub
    \/ DeserializeScalar
    \/ EqScalar

SpecScalar == Init /\ [][NextScalar]_vars

----------------------------------------------------------------------------
(* The Point operations of the session.                                    *)

\* a call that returns a Point into the variable dst, or panics
PointCall(op, args, out, dst) ==
    /\ call' = [op |-> op, args |-> args, out |-> out]
    /\ IF out.ok
       THEN /\ pa' = IF dst = "a" THEN out.val ELSE pa
            /\ pb' = IF dst = "b" THEN out.val ELSE pb
            /\ UNCHANGED <<sa, sb>>
       ELSE /\ sa' = NoScalar
            /\ sb' = NoScalar
            /\ pa' = NoPoint
            /\ pb' = NoPoint

ValidSecretKeys ==
    {FieldBytes(k) : k \in 1..(q - 1)}

CoordinateLimit == Pow(ByteBase, COORDINATE_SIZE)

\* the integers handed to from_coor: the coordinates of the curve's points,
\* and around them zero, negative numbers, values from the field prime
\* up to the canonical width, and oversized values
CoorExtras ==
    ((0 - CoorSlack)..0)
    \cup (FIELD_PRIME..(FIELD_PRIME + CoorSlack - 1))
    \cup ((CoordinateLimit - 1)..(CoordinateLimit + CoorSlack - 1))
    \cup {0 - CoordinateLimit}

\* the pairs handed to from_coor: the coordinates of every point of the
\* curve, and every pair over the generator's coordinates, the smallest
\* coordinates of the curve and the values above
CoorProbes ==
    CoorExtras
    \cup {BigInt_from(GENERATOR_X), BigInt_from(GENERATOR_Y), 2, 12}

CoorInputs == CurvePoints \cup (CoorProbes \X CoorProbes)

\* the entries a record handed to the Point deserializer is made of: the
\* two fields of a serialized point and a field of another name
RecordEntries(pt) ==
    LET fields == Secp256k1Point_serialize(pt)
    IN  {fields[1], fields[2], <<"z", fields[1][2]>>}

Generator ==
    PointCall("generator", <<>>, generator, "a")

RandomPoint ==
    \E arr \in RandBytes :
        PointCall("random_point", <<>>, random_point(arr), "a")

ScalarMul ==
    /\ pa # NoPoint
    /\ \E fe \in ValidSecretKeys :
           PointCall("scalar_mul", <<>>, scalar_mul(pa, fe), "a")

AddPoint ==
    /\ pa # NoPoint
    /\ pb # NoPoint
    /\ PointCall("add_point", <<>>, add_point(pa, pb.ge), "a")

FromCoor ==
    \E xy \in CoorInputs :
        PointCall("from_coor", xy, from_coor(xy[1], xy[2]), "b")

DeserializePoint ==
    \E n \in 0..MaxFields :
        \E entries \in [1..n -> RecordEntries(IF pa = NoPoint
                                               THEN generator.val ELSE pa)] :
            PointCall("deserialize_point", <<entries>>, visit_map(entries), "b")

PkToKeySlice ==
    /\ pa # NoPoint
    /\ call' = [op |-> "pk_to_key_slice", args |-> <<pa>>,
                out |-> Ok(pk_to_key_slice(pa))]
    /\ UNCHANGED <<sa, sb, pa, pb>>

NextPoint ==
    \/ Generator
    \/ RandomPoint
    \/ ScalarMul
    \/ AddPoint
    \/ FromCoor
    \/ DeserializePoint
    \/ PkToKeySlice

SpecPoint == Init /\ [][NextPoint]_vars

----------------------------------------------------------------------------
(* Claims about the Scalar operations, checked under SpecScalar.           *)

OutcomeEq(o1, o2) ==
    /\ o1.ok = o2.ok
    /\ o1.fault = o2.fault
    /\ (o1.ok => o1.val = o2.val)

\* C1: for every integer n, from(n) returns a Scalar whose to_big_int() is
\* n mod the curve order, n = 0 and the multiples of the order included.
C1_FromReturnsReduced ==
    call.op = "from" =>
        /\ call.out.ok
        /\ to_big_int(call.out.val) = call.args[1] % q

ArithExpected(op, a, b) ==
    IF op = "add" THEN (a + b) % q
    ELSE IF op = "mul" THEN (a * b) % q
    ELSE (a - b) % q

\* C2: a.add(b), a.mul(b) and a.sub(b) return a Scalar whose to_big_int()
\* is (a + b) mod q, (a * b) mod q, (a - b) mod q, for every pair of valid
\* Scalars, the pairs whose result is 0 mod q included.
C2_ArithReturnsModular ==
    call.op \in {"add", "mul", "sub"} =>
        /\ call.out.ok
        /\ to_big_int(call.out.val)
              = ArithExpected(call.op, to_big_int(call.args[1]),
                              BigInt_from(call.args[2]))

\* C3: two Scalars compare equal exactly when their raw elements are
\* equal, whatever operation produced each of them.
C3_EqualityIsRawEquality ==
    call.op = "eq" =>
        (call.out.val <=> (call.args[1].fe = call.args[2].fe))

\* C4: the outcome of from, add, mul and sub is a function of the operands:
\* a call repeated with the same operands has the same outcome.
C4_SameOperandsSameOutcome ==
    [][(/\ call.op \in {"from", "add", "mul", "sub"}
        /\ call'.op = call.op
        /\ call'.args = call.args)
       => OutcomeEq(call'.out, call.out)]_vars

\* C5: deserializing a valid hexadecimal string that encodes v returns a
\* Scalar equal to from(v), of integer value v mod the curve order; no
\* such string is rejected.
C5_DeserializeReduces ==
    (call.op = "deserialize_scalar" /\ BigInt_from_str_radix(call.args[1]).ok)
    => LET v == BigInt_from_str_radix(call.args[1]).val
       IN  /\ call.out.ok
           /\ to_big_int(call.out.val) = v % q
           /\ \E arr \in RandBytes :
                  /\ from(v, arr).ok
                  /\ Secp256k1Scalar_eq(call.out.val, from(v, arr).val)

ExistingScalars ==
    ({sa, sb} \ {NoScalar})
    \cup (IF call.op \in {"new_random", "from", "add", "mul", "sub",
                          "set_element", "deserialize_scalar"} /\ call.out.ok
          THEN {call.out.val} ELSE {})

\* C8: after any sequence of Scalar operations every Scalar that exists
\* has to_big_int() in 0..q-1 and a raw encoding of SECRET_KEY_SIZE bytes.
C8_ScalarInRange ==
    \A s \in ExistingScalars :
        /\ to_big_int(s) \in 0..(q - 1)
        /\ Len(get_element(s)) = SECRET_KEY_SIZE

C8_Witness ==
    /\ call.op = "mul"
    /\ call.out.ok
    /\ sb = call.out.val
    /\ to_big_int(sb) = q - 1
    /\ sa.purpose = "random"

----------------------------------------------------------------------------
(* Claims about the Point operations, checked under SpecPoint.             *)

ExistingPoints == {pa, pb} \ {NoPoint}

\* C6: a Point rebuilt from its own coordinates is the same point:
\* from_coor(p.x_coor(), p.y_coor()) and deserialize(serialize(p)) both
\* return a Point with the raw element, x_coor and y_coor of p, also when
\* a coordinate is shorter than the canonical width and is padded back.
C6_RebuildSamePoint ==
    \A pt \in ExistingPoints :
        LET r == from_coor(x_coor(pt), y_coor(pt))
            d == visit_map(Secp256k1Point_serialize(pt))
        IN  /\ r.ok
            /\ r.val.ge = pt.ge
            /\ x_coor(r.val) = x_coor(pt)
            /\ y_coor(r.val) = y_coor(pt)
            /\ d.ok
            /\ d.val.ge = pt.ge
            /\ x_coor(d.val) = x_coor(pt)
            /\ y_coor(d.val) = y_coor(pt)

C6_Witness ==
    /\ call.op = "from_coor"
    /\ call.out.ok
    /\ pa # NoPoint
    /\ pa.purpose = "random_point"
    /\ call.args = <<x_coor(pa), y_coor(pa)>>
    /\ pb = call.out.val
    /\ x_coor(pa) < ByteBase

Malformed(entries) ==
    \/ \E i \in DOMAIN entries : entries[i][1] \notin {"x", "y"}
    \/ ~ \E i \in DOMAIN entries : entries[i][1] = "x"
    \/ ~ \E i \in DOMAIN entries : entries[i][1] = "y"

\* C7: deserializing a Point record that has a field other than x and y,
\* or lacks the field x or the field y, ends in a fault, never in a Point.
C7_MalformedRecordFaults ==
    (call.op = "deserialize_point" /\ Malformed(call.args[1]))
    => ~call.out.ok

C7_Witness ==
    /\ call.op = "deserialize_point"
    /\ \E i \in DOMAIN call.args[1] : call.args[1][i][1] = "x"
    /\ \E i \in DOMAIN call.args[1] : call.args[1][i][1] = "y"
    /\ call.args[1][Len(call.args[1])][1] = "z"
    /\ call.out.fault = "unknown_field"

Oversized(n) == Abs(n) >= CoordinateLimit

\* C9 as stated: from_coor on an x or y longer than the canonical width
\* faults at the assertion that the padded encoding reproduces the integer.
C9_OversizedFaultsAtAssertion ==
    (call.op = "from_coor"
        /\ (Oversized(call.args[1]) \/ Oversized(call.args[2])))
    => call.out.fault \in {"assert_eq_x", "assert_eq_y"}

\* C9 amended: from_coor on non-negative x and y, one of them longer than
\* the canonical width, faults, and it faults where PublicKey::from_slice
\* is unwrapped; both assertions pass.
C9_OversizedFaultsAtBackend ==
    (call.op = "from_coor"
        /\ (Oversized(call.args[1]) \/ Oversized(call.args[2]))
        /\ call.args[1] >= 0
        /\ call.args[2] >= 0)
    => (~call.out.ok /\ call.out.fault = "from_coor")

C9_Witness ==
    /\ call.op = "from_coor"
    /\ call.args[1] = CoordinateLimit
    /\ call.args[2] = BigInt_from(GENERATOR_Y)
    /\ call.out.fault = "from_coor"

RECURSIVE SignificantBytes(_)
SignificantBytes(n) ==
    IF n < ByteBase THEN 1 ELSE 1 + SignificantBytes(n \div ByteBase)

\* C10: pk_to_key_slice returns the byte 4 followed by the unpadded
\* big-endian bytes of x written twice: y is not written, points with the
\* same x and different y give the same output, and the output is shorter
\* than the uncompressed size when x has a leading zero byte.
C10_KeySliceIsXTwice ==
    call.op = "pk_to_key_slice" =>
        LET pt == call.args[1]
            x == pt.ge[1]
            k == SignificantBytes(x)
            out == call.out.val
        IN  /\ Len(out) = 1 + 2 * k
            /\ out[1] = 4
            /\ BigInt_from(SubSeq(out, 2, 1 + k)) = x
            /\ SubSeq(out, 2 + k, 1 + 2 * k) = SubSeq(out, 2, 1 + k)
            /\ (x < CoordinateLimit \div ByteBase
                   => Len(out) < UNCOMPRESSED_PUBLIC_KEY_SIZE)
            /\ \A other \in ExistingPoints :
                   other.ge[1] = x => pk_to_key_slice(other) = out

C10_Witness ==
    /\ call.op = "pk_to_key_slice"
    /\ pb # NoPoint
    /\ pa.ge[1] = pb.ge[1]
    /\ pa.ge[2] # pb.ge[2]
    /\ pa.ge[1] < ByteBase
    /\ Len(call.out.val) < UNCOMPRESSED_PUBLIC_KEY_SIZE

====
